---- MODULE Spec2Model ----
(***************************************************************************)
(* A model of polars_typed: the metaclass _Meta that builds a schema class *)
(* (its ordered polars schema and its list of data quality checks) from a  *)
(* class body and its bases, and the classmethods validate, coerce and     *)
(* perform_data_quality_checks of _DataFrameSchema.                        *)
(*                                                                         *)
(* A polars schema is a sequence of <<name, dtype>> pairs with pairwise    *)
(* distinct names (an ordered dict).  A dataset is its ordered columns,    *)
(* its height and whether it is a LazyFrame.                               *)
(***************************************************************************)
EXTENDS Integers, Sequences, FiniteSets, TLC

VARIABLES
    classes,    \* the schema classes created so far, in creation order
    pc,         \* "idle" | "declared" | "returned" | "checking"
    decl,       \* the last class statement: its bases, body and outcome
    call,       \* the last classmethod call: its arguments and outcome
    ran         \* perform_data_quality_checks: the checks run so far

vars == <<classes, pc, decl, call, ran>>

----------------------------------------------------------------------------
(* Bounds of the model *)

MaxClasses == 3     \* class statements executed
MaxMembers == 2     \* members written in one class body
MaxParents == 2     \* parent schema classes of one class
MaxRows    == 1     \* height of an input dataset

(* Column names, member names and dtypes used by the inputs *)
Names     == {"a", "b", "c"}
DeclNames == {"a", "b"}
Types     == {"Boolean", "Int8", "Int64"}
DeclTypes == {"Boolean", "Int64"}

NoType == "-"

----------------------------------------------------------------------------
(* Generic helpers on sequences *)

Range(s) == {s[i] : i \in DOMAIN s}

RECURSIVE Flatten(_)
Flatten(ss) ==
    IF ss = <<>> THEN <<>> ELSE Head(ss) \o Flatten(Tail(ss))

\* the sequences over S without repetition, of length at most n
RECURSIVE DistinctSeqs(_, _)
DistinctSeqs(S, n) ==
    IF n = 0 THEN {<<>>}
    ELSE LET shorter == DistinctSeqs(S, n - 1)
         IN  shorter \cup
             {Append(s, x) : s \in {t \in shorter : Len(t) = n - 1}, x \in S}

----------------------------------------------------------------------------
(* polars: is_numeric, Schema *)

is_numeric(t) == t \in {"Int8", "Int64"}

SchemaNames(schema) == {schema[i][1] : i \in DOMAIN schema}

SchemaHas(schema, k) == k \in SchemaNames(schema)

SchemaGet(schema, k) ==
    LET i == CHOOSE i \in DOMAIN schema : schema[i][1] = k IN schema[i][2]

\* schema[k] = v of an ordered dict: a known key keeps its place
SchemaSet(schema, k, v) ==
    IF SchemaHas(schema, k)
    THEN [i \in DOMAIN schema |->
            IF schema[i][1] = k THEN <<k, v>> ELSE schema[i]]
    ELSE Append(schema, <<k, v>>)

\* pl.Schema(items): the items are set one after the other
RECURSIVE PlSchemaFrom(_, _)
PlSchemaFrom(schema, items) ==
    IF items = <<>> THEN schema
    ELSE PlSchemaFrom(SchemaSet(schema, Head(items)[1], Head(items)[2]),
                      Tail(items))

PlSchema(items) == PlSchemaFrom(<<>>, items)

----------------------------------------------------------------------------
(* Class bodies *)

\* A member of a class body: namespace[key] = value.  kind is the kind of
\* the value: "Column" (with its dtype t), "classmethod", "function", or
\* "other" (any other object, such as pl.Int8); marked says that the value
\* went through @data_quality_check.
Member(key, kind, t, marked) ==
    [key |-> key, kind |-> kind, t |-> t, marked |-> marked]

ColumnMember(key, t) == Member(key, "Column", t, FALSE)
OtherMember(key)     == Member(key, "other", NoType, FALSE)

\* what the class statement puts in every namespace before the body runs
Preamble == << OtherMember("__module__"), OtherMember("__qualname__") >>

\* k.endswith("__"), for the member names of the model
DunderNames == {"__module__", "__qualname__", "__annotations__"}
EndsWithDunder(k) == k \in DunderNames

Keys(namespace) == {namespace[i].key : i \in DOMAIN namespace}

\* a dict holds a key once
DistinctKeys(namespace) ==
    \A i, j \in DOMAIN namespace :
        namespace[i].key = namespace[j].key => i = j

\* hasattr(value, "_is_data_quality_check")
HasCheckMark(m) == m.marked

\* The check object found in a class body: the decorated value itself.
\* owner is the class whose body holds it.
CheckOf(owner, m) == [name |-> m.key, owner |-> owner, kind |-> m.kind]

----------------------------------------------------------------------------
(* _Meta.__new__ *)

DataFrameSchema == 0    \* the base class every schema class derives from

\* parent_schemas := [b for b in bases if b is not DataFrameSchema]
ParentSchemas(bases) == SelectSeq(bases, LAMBDA b : b # DataFrameSchema)

\* [(k, v) for schema in super_class_schemas for k, v in schema.items()]
SuperClassSchemaItems(reg, bases) ==
    LET ps == ParentSchemas(bases)
    IN  Flatten([i \in DOMAIN ps |-> reg[ps[i]].schema])

\* [check for b in parent_schemas for check in b._data_quality_checks]
SuperClassChecks(reg, bases) ==
    LET ps == ParentSchemas(bases)
    IN  Flatten([i \in DOMAIN ps |-> reg[ps[i]].checks])

\* [(k, v._t) for k, v in namespace.items() if isinstance(v, Column)]
OwnColumnItems(namespace) ==
    LET cols == SelectSeq(namespace, LAMBDA m : m.kind = "Column")
    IN  [i \in DOMAIN cols |-> <<cols[i].key, cols[i].t>>]

\* [check for check in namespace.values() if hasattr(check, "_is_data_quality_check")]
OwnChecks(owner, namespace) ==
    LET cs == SelectSeq(namespace, HasCheckMark)
    IN  [i \in DOMAIN cs |-> CheckOf(owner, cs[i])]

\* (mutation: the columns of the body are put first)
MetaSchema_OwnFirst(reg, bases, namespace) ==
    PlSchema(OwnColumnItems(namespace) \o SuperClassSchemaItems(reg, bases))

\* super class items first, "such that in the final schema the super class
\* column names are put first"
MetaSchema(reg, bases, namespace) ==
    PlSchema(SuperClassSchemaItems(reg, bases) \o OwnColumnItems(namespace))

\* (mutation: the checks of the body are put first)
MetaChecks_OwnFirst(reg, owner, bases, namespace) ==
    OwnChecks(owner, namespace) \o SuperClassChecks(reg, bases)

MetaChecks(reg, owner, bases, namespace) ==
    SuperClassChecks(reg, bases) \o OwnChecks(owner, namespace)

HasAnnotations(namespace) == "__annotations__" \in Keys(namespace)

AllowedProperty(m) ==
    \/ EndsWithDunder(m.key)
    \/ m.kind = "function"
    \/ m.kind = "classmethod"

\* [k for k in namespace if k not in allowed_properties and k not in schema]
UnexpectedProperties(schema, namespace) ==
    LET bad == SelectSeq(namespace,
                   LAMBDA m : ~AllowedProperty(m) /\ ~SchemaHas(schema, m.key))
    IN  [i \in DOMAIN bad |-> bad[i].key]

NoClass == [bases |-> <<>>, schema |-> <<>>, checks |-> <<>>]

\* The outcome of the class statement `class <owner>(*bases): <body>`:
\* the new class, or the TypeError raised.  Every base is DataFrameSchema
\* or a class made by this operator, so each parent has _schema and
\* _data_quality_checks; the branch for bases == (_DataFrameSchema,) is
\* taken once, when DataFrameSchema itself is made.  The class gets, besides
\* _schema and _data_quality_checks, one attribute Column(v, k) for each
\* entry of its schema.
MetaNew(reg, owner, bases, body) ==
    LET namespace  == Preamble \o body
        schema     == MetaSchema(reg, bases, namespace)
        checks     == MetaChecks(reg, owner, bases, namespace)
        unexpected == UnexpectedProperties(schema, namespace)
    IN  IF HasAnnotations(namespace)
        THEN [ok |-> FALSE, error |-> "annotations", names |-> <<>>,
              cls |-> NoClass]
        ELSE IF Len(unexpected) > 0
        THEN [ok |-> FALSE, error |-> "unexpected", names |-> unexpected,
              cls |-> NoClass]
        ELSE [ok |-> TRUE, error |-> "none", names |-> <<>>,
              cls |-> [bases |-> bases, schema |-> schema,
                       checks |-> checks]]

\* the classes a class derives from, directly or not
RECURSIVE Ancestors(_, _)
Ancestors(reg, c) ==
    LET ps == Range(ParentSchemas(reg[c].bases))
    IN  ps \cup UNION {Ancestors(reg, p) : p \in ps}

\* Bases Python accepts: no base twice, and no base listed before one of
\* its own subclasses (there is no consistent method resolution order).
LegalBases(reg, bases) ==
    /\ \A i, j \in DOMAIN bases : bases[i] = bases[j] => i = j
    /\ \A i, j \in DOMAIN bases :
          i < j => bases[i] \notin Ancestors(reg, bases[j])

----------------------------------------------------------------------------
(* polars: datasets *)

\* A column of a dataset: its name, its dtype, and whether every value of
\* it is null.  A dataset: its columns in order, its height (row count)
\* and whether it is a pl.LazyFrame.
FrameColumn(name, dtype, null) == [name |-> name, dtype |-> dtype, null |-> null]

Frame(cols, height, lazy) == [cols |-> cols, height |-> height, lazy |-> lazy]

NoFrame == Frame(<<>>, 0, FALSE)

\* df.collect_schema()
collect_schema(df) ==
    [i \in DOMAIN df.cols |-> <<df.cols[i].name, df.cols[i].dtype>>]

\* `c in df`
FrameHas(df, c) == \E i \in DOMAIN df.cols : df.cols[i].name = c

FrameColumnOf(df, c) ==
    df.cols[CHOOSE i \in DOMAIN df.cols : df.cols[i].name = c]

\* (mutation: the null literal is not cast)
with_null_columns_Uncast(df, items) ==
    LET new == [i \in DOMAIN items |-> FrameColumn(items[i][1], "Null", TRUE)]
    IN  IF items = <<>> THEN df
        ELSE Frame(df.cols \o new,
                   IF df.cols = <<>> THEN 1 ELSE df.height,
                   df.lazy)

\* df.with_columns(**{col: pl.lit(None).cast(typ) for col, typ in items}):
\* the null literal is broadcast to the height of the dataset; a dataset
\* without columns has no height to broadcast to and gets the one row of
\* the literal.
with_null_columns(df, items) ==
    LET new == [i \in DOMAIN items |->
                   FrameColumn(items[i][1], items[i][2], TRUE)]
    IN  IF items = <<>> THEN df
        ELSE Frame(df.cols \o new,
                   IF df.cols = <<>> THEN 1 ELSE df.height,
                   df.lazy)

\* pl.col(c).cast(dtype) never fails on these (source, target) dtypes;
\* any other cast fails when a value does not fit the target.
CastAlwaysFits(from, to) ==
    \/ from = to
    \/ from = "Int8" /\ to = "Int64"
    \/ from = "Boolean" /\ is_numeric(to)

\* df.select(exprs), each expression a column of df, cast or not:
\* exprs[i] = <<name, cast, dtype>>
select(df, exprs) ==
    Frame([i \in DOMAIN exprs |->
              LET col == FrameColumnOf(df, exprs[i][1])
              IN  IF exprs[i][2]
                  THEN FrameColumn(col.name, exprs[i][3], col.null)
                  ELSE col],
          IF exprs = <<>> THEN 0 ELSE df.height,
          df.lazy)

----------------------------------------------------------------------------
(* _DataFrameSchema.validate, coerce *)

\* What a call gives its caller: the dataset returned, or the error raised.
\* error: "none" | "order" | "mismatch" | "cast" | "misuse" | "check"
Returned(df) ==
    [ok |-> TRUE, error |-> "none", redundant |-> {}, missing |-> {},
     incorrect |-> <<>>, expected |-> <<>>, received |-> <<>>, out |-> df]

Raised(error, redundant, missing, incorrect, expected, received) ==
    [ok |-> FALSE, error |-> error, redundant |-> redundant,
     missing |-> missing, incorrect |-> incorrect, expected |-> expected,
     received |-> received, out |-> NoFrame]

RaisedOnly(error) == Raised(error, {}, {}, <<>>, <<>>, <<>>)

\* sorted(schema) == sorted(df_schema): the sorted key lists of two dicts
\* are equal exactly when the dicts have the same keys
SameSortedNames(schema, df_schema) ==
    SchemaNames(schema) = SchemaNames(df_schema)

\* (mutation: the types are not compared)
AllTypesEqual_Unchecked(schema, df_schema) == TRUE

\* all(df_schema[k] == schema[k] for k in schema)
AllTypesEqual(schema, df_schema) ==
    \A i \in DOMAIN schema : SchemaGet(df_schema, schema[i][1]) = schema[i][2]

\* (mutation: only the first such column is reported)
ColumnsWithIncorrectTypes_First(schema, df_schema) ==
    LET bad == SelectSeq(schema,
                   LAMBDA kv : /\ SchemaHas(df_schema, kv[1])
                               /\ SchemaGet(df_schema, kv[1]) # kv[2])
    IN  IF bad = <<>> THEN <<>>
        ELSE << <<bad[1][1], bad[1][2], SchemaGet(df_schema, bad[1][1])>> >>

\* [f"column {k} should be {v1} but is {v2}" for k, v1 in schema.items()
\*  if k in df_schema and (v2 := df_schema[k]) != v1]
ColumnsWithIncorrectTypes(schema, df_schema) ==
    LET bad == SelectSeq(schema,
                   LAMBDA kv : /\ SchemaHas(df_schema, kv[1])
                               /\ SchemaGet(df_schema, kv[1]) # kv[2])
    IN  [i \in DOMAIN bad |->
            <<bad[i][1], bad[i][2], SchemaGet(df_schema, bad[i][1])>>]

\* (mutation: the schemas are compared as plain dicts, whatever their order)
validate_Unordered(cls, df) ==
    LET schema    == cls.schema
        df_schema == collect_schema(df)
    IN  IF Range(schema) # Range(df_schema)
        THEN Raised("mismatch",
                    SchemaNames(df_schema) \ SchemaNames(schema),
                    SchemaNames(schema) \ SchemaNames(df_schema),
                    ColumnsWithIncorrectTypes(schema, df_schema),
                    <<>>, <<>>)
        ELSE Returned(df)

validate(cls, df) ==
    LET schema    == cls.schema
        df_schema == collect_schema(df)
    IN  IF schema # df_schema
        THEN IF /\ SameSortedNames(schema, df_schema)
                /\ AllTypesEqual(schema, df_schema)
             THEN Raised("order", {}, {}, <<>>, schema, df_schema)
             ELSE Raised("mismatch",
                         SchemaNames(df_schema) \ SchemaNames(schema),
                         SchemaNames(schema) \ SchemaNames(df_schema),
                         ColumnsWithIncorrectTypes(schema, df_schema),
                         <<>>, <<>>)
        ELSE Returned(df)

\* {col: pl.lit(None).cast(typ) for col, typ in cls._schema.items() if col not in df}
MissingItems(schema, df) ==
    SelectSeq(schema, LAMBDA kv : ~FrameHas(df, kv[1]))

\* (mutation: the columns of df are selected as they come)
CoerceExprs_FrameOrder(schema, df, upcast_numeric) ==
    LET present == SelectSeq(collect_schema(df), LAMBDA kv : SchemaHas(schema, kv[1]))
    IN  [i \in DOMAIN present |->
            <<present[i][1],
              is_numeric(SchemaGet(schema, present[i][1])) /\ upcast_numeric,
              SchemaGet(schema, present[i][1])>>]

\* (mutation: nothing is cast)
CoerceExprs_NoCast(schema, df, upcast_numeric) ==
    LET present == SelectSeq(schema, LAMBDA kv : FrameHas(df, kv[1]))
    IN  [i \in DOMAIN present |-> <<present[i][1], FALSE, present[i][2]>>]

\* [pl.col(c).cast(dtype) if (dtype.is_numeric() and upcast_numeric) else c
\*  for c, dtype in cls._schema.items() if c in df]
CoerceExprs(schema, df, upcast_numeric) ==
    LET present == SelectSeq(schema, LAMBDA kv : FrameHas(df, kv[1]))
    IN  [i \in DOMAIN present |->
            <<present[i][1], is_numeric(present[i][2]) /\ upcast_numeric,
              present[i][2]>>]

\* a cast of the select that fails on some values
FallibleCast(df, exprs) ==
    \E i \in DOMAIN exprs :
        LET col == FrameColumnOf(df, exprs[i][1])
        IN  /\ exprs[i][2]
            /\ ~CastAlwaysFits(col.dtype, exprs[i][3])
            /\ ~col.null

\* the dataset after `if allow_missing: df = df.with_columns(...)`
WithMissing(cls, df, allow_missing) ==
    IF allow_missing
    THEN with_null_columns(df, MissingItems(cls.schema, df))
    ELSE df

\* The select of coerce computes a cast that fails on some values: on a
\* DataFrame it is computed at once, on a LazyFrame not before collect().
CastCanFail(cls, df, allow_missing, upcast_numeric) ==
    LET df1 == WithMissing(cls, df, allow_missing)
    IN  /\ ~df1.lazy
        /\ FallibleCast(df1, CoerceExprs(cls.schema, df1, upcast_numeric))

\* misfit: the data holds a value that a fallible cast of the select rejects
coerce(cls, df, allow_missing, upcast_numeric, misfit) ==
    LET df1   == WithMissing(cls, df, allow_missing)
        exprs == CoerceExprs(cls.schema, df1, upcast_numeric)
    IN  IF misfit /\ CastCanFail(cls, df, allow_missing, upcast_numeric)
        THEN RaisedOnly("cast")
        ELSE validate(cls, select(df1, exprs))

----------------------------------------------------------------------------
(* The class statements the model executes *)

ColumnMembers ==
    {ColumnMember("a", t) : t \in DeclTypes} \cup {ColumnMember("b", "Int64")}
OtherMembers  == {OtherMember(k) : k \in DeclNames}
MethodMembers ==
    { Member("f", "classmethod", NoType, TRUE),    \* @data_quality_check @classmethod
      Member("g", "classmethod", NoType, TRUE) }
Annotations   == OtherMember("__annotations__")    \* the body annotates a name

Members == ColumnMembers \cup OtherMembers \cup MethodMembers \cup {Annotations}

\* the body assigns its columns first, then defines its methods
ColumnsFirst(body) ==
    \A i, j \in DOMAIN body :
        (i < j /\ body[j].key \in DeclNames) => body[i].key \in DeclNames

Bodies ==
    {b \in DistinctSeqs(Members, MaxMembers) : DistinctKeys(b) /\ ColumnsFirst(b)}

BasesChoices(reg) ==
    {<<DataFrameSchema>>} \cup
    {bs \in DistinctSeqs(DOMAIN reg, MaxParents) :
        bs # <<>> /\ LegalBases(reg, bs)}

NoResult == RaisedOnly("none")     \* nothing returned or raised (yet)

NoCall == [op |-> "none", cls |-> 0, df |-> NoFrame, allow_missing |-> FALSE,
           upcast_numeric |-> FALSE, misfit |-> FALSE, result |-> NoResult]

NoDecl == [bases |-> <<>>, body |-> <<>>, ok |-> TRUE, error |-> "none",
           names |-> <<>>]

\* class <Len(classes) + 1>(*bases): <body>
Declare(bases, body) ==
    LET owner == Len(classes) + 1
        r     == MetaNew(classes, owner, bases, body)
    IN  /\ pc = "idle"
        /\ Len(classes) < MaxClasses
        /\ classes' = IF r.ok THEN Append(classes, r.cls) ELSE classes
        /\ decl' = [bases |-> bases, body |-> body, ok |-> r.ok,
                    error |-> r.error, names |-> r.names]
        /\ pc' = "declared"
        /\ UNCHANGED <<call, ran>>

\* the class statement is over: the class is bound, or the TypeError is
\* with the caller
DeclareDone ==
    /\ pc = "declared"
    /\ pc' = "idle"
    /\ decl' = NoDecl
    /\ UNCHANGED <<classes, call, ran>>

InitMeta ==
    /\ classes = <<>>
    /\ pc = "idle"
    /\ decl = NoDecl
    /\ call = NoCall
    /\ ran = <<>>

ClassStatement ==
    /\ pc = "idle"
    /\ Len(classes) < MaxClasses
    /\ \E bases \in BasesChoices(classes), body \in Bodies : Declare(bases, body)

NextMeta ==
    \/ ClassStatement
    \/ DeclareDone

SpecMeta == InitMeta /\ [][NextMeta]_vars

----------------------------------------------------------------------------
(* The schema classes and datasets the calls are made on *)

\* class 1(DataFrameSchema): <columns>; a data quality check f
\* class 2(1): c = Column(pl.Boolean); a data quality check g, which is a
\*             classmethod or (misused) a plain function
CallColumnMembers ==
    {ColumnMember(k, t) : k \in DeclNames, t \in {"Int8", "Int64"}}
    \cup {ColumnMember("a", "Boolean")}

CallColumnBodies ==
    {b \in DistinctSeqs(CallColumnMembers, Cardinality(DeclNames)) : DistinctKeys(b)}

CheckG == { Member("g", "classmethod", NoType, TRUE),
            Member("g", "function", NoType, TRUE) }

Hierarchies ==
    { << [bases |-> <<DataFrameSchema>>,
          body  |-> cols \o <<Member("f", "classmethod", NoType, TRUE)>>],
         [bases |-> <<1>>,
          body  |-> <<ColumnMember("c", "Boolean"), g>>] >>
      : cols \in CallColumnBodies, g \in CheckG }

\* the classes after the class statements decls, none of which raises
RECURSIVE DeclareAll(_, _)
DeclareAll(reg, decls) ==
    IF decls = <<>> THEN reg
    ELSE LET r == MetaNew(reg, Len(reg) + 1, Head(decls).bases, Head(decls).body)
         IN  DeclareAll(Append(reg, r.cls), Tail(decls))

\* the columns input datasets are made of
InputColumns(height) ==
    {FrameColumn(k, t, height = 0) : k \in DeclNames, t \in Types}
    \cup {FrameColumn("c", "Boolean", height = 0)}

DistinctColumnNames(cols) ==
    \A i, j \in DOMAIN cols : cols[i].name = cols[j].name => i = j

\* a dataset without columns has no rows
InputFrames ==
    {Frame(<<>>, 0, lazy) : lazy \in BOOLEAN} \cup
    UNION {
        {Frame(cols, height, lazy) :
            cols \in {cs \in DistinctSeqs(InputColumns(height), Cardinality(Names)) :
                         cs # <<>> /\ DistinctColumnNames(cs)},
            lazy \in BOOLEAN}
        : height \in 0..MaxRows }

----------------------------------------------------------------------------
(* Calls of the classmethods *)

CallOf(op, c, df, allow_missing, upcast_numeric, misfit, result) ==
    [op |-> op, cls |-> c, df |-> df, allow_missing |-> allow_missing,
     upcast_numeric |-> upcast_numeric, misfit |-> misfit, result |-> result]

\* classes[c].validate(df)
Validate(c, df) ==
    /\ pc = "idle"
    /\ call' = CallOf("validate", c, df, FALSE, FALSE, FALSE,
                      validate(classes[c], df))
    /\ pc' = "returned"
    /\ UNCHANGED <<classes, decl, ran>>

\* classes[c].coerce(df, allow_missing, upcast_numeric)
Coerce(c, df, allow_missing, upcast_numeric, misfit) ==
    /\ pc = "idle"
    /\ misfit => CastCanFail(classes[c], df, allow_missing, upcast_numeric)
    /\ call' = CallOf("coerce", c, df, allow_missing, upcast_numeric, misfit,
                      coerce(classes[c], df, allow_missing, upcast_numeric, misfit))
    /\ pc' = "returned"
    /\ UNCHANGED <<classes, decl, ran>>

\* (mutation: the checks run whether or not the dataset validates)
PerformStart_Unvalidated(c, df) ==
    /\ pc = "idle"
    /\ ~df.lazy
    /\ call' = CallOf("perform_data_quality_checks", c, df, FALSE, FALSE,
                      FALSE, NoResult)
    /\ pc' = "checking"
    /\ ran' = <<>>
    /\ UNCHANGED <<classes, decl>>

\* classes[c].perform_data_quality_checks(df: pl.DataFrame), up to the loop:
\* validated_df = cls.validate(df)
PerformStart(c, df) ==
    LET r == validate(classes[c], df)
    IN  /\ pc = "idle"
        /\ ~df.lazy
        /\ call' = CallOf("perform_data_quality_checks", c, df, FALSE, FALSE,
                          FALSE, IF r.ok THEN NoResult ELSE r)
        /\ pc' = IF r.ok THEN "checking" ELSE "returned"
        /\ ran' = <<>>
        /\ UNCHANGED <<classes, decl>>

\* the check the loop is at
NextCheck == classes[call.cls].checks[Len(ran) + 1]

\* validated_df: what cls.validate(df) returned, the dataset itself
validated_df == call.df

\* check.__func__(cls, validated_df): the function under the classmethod is
\* called with the class perform_data_quality_checks is called on, whichever
\* class the check is declared in, and with validated_df
CheckCall(check, raised) ==
    [check |-> check, raised |-> raised, cls |-> call.cls, df |-> validated_df]

MoreChecks == Len(ran) < Len(classes[call.cls].checks)

\* if not isinstance(check, classmethod): raise TypeError(...)
CheckIsNoClassmethod ==
    /\ pc = "checking"
    /\ MoreChecks
    /\ NextCheck.kind # "classmethod"
    /\ call' = [call EXCEPT !.result = RaisedOnly("misuse")]
    /\ pc' = "returned"
    /\ UNCHANGED <<classes, decl, ran>>

\* check.__func__(cls, validated_df) returns
CheckPasses ==
    /\ pc = "checking"
    /\ MoreChecks
    /\ NextCheck.kind = "classmethod"
    /\ ran' = Append(ran, CheckCall(NextCheck, FALSE))
    /\ UNCHANGED <<classes, decl, call, pc>>

\* (mutation: the error of a check is swallowed and the loop goes on)
CheckRaises_Swallowed ==
    /\ pc = "checking"
    /\ MoreChecks
    /\ NextCheck.kind = "classmethod"
    /\ ran' = Append(ran, CheckCall(NextCheck, TRUE))
    /\ UNCHANGED <<classes, decl, call, pc>>

\* check.__func__(cls, validated_df) raises
CheckRaises ==
    /\ pc = "checking"
    /\ MoreChecks
    /\ NextCheck.kind = "classmethod"
    /\ ran' = Append(ran, CheckCall(NextCheck, TRUE))
    /\ call' = [call EXCEPT !.result = RaisedOnly("check")]
    /\ pc' = "returned"
    /\ UNCHANGED <<classes, decl>>

\* return validated_df
PerformReturn ==
    /\ pc = "checking"
    /\ ~MoreChecks
    /\ call' = [call EXCEPT !.result = Returned(call.df)]
    /\ pc' = "returned"
    /\ UNCHANGED <<classes, decl, ran>>

\* the caller has the value or the error of the call
CallDone ==
    /\ pc = "returned"
    /\ pc' = "idle"
    /\ call' = NoCall
    /\ ran' = <<>>
    /\ UNCHANGED <<classes, decl>>

Init ==
    /\ classes \in {DeclareAll(<<>>, h) : h \in Hierarchies}
    /\ pc = "idle"
    /\ decl = NoDecl
    /\ call = NoCall
    /\ ran = <<>>

\* The inputs of a call are chosen when a call is made.
ValidateCall ==
    /\ pc = "idle"
    /\ \E c \in DOMAIN classes, df \in InputFrames : Validate(c, df)

CoerceCall ==
    /\ pc = "idle"
    /\ \E c \in DOMAIN classes, df \in InputFrames,
          allow_missing \in BOOLEAN, upcast_numeric \in BOOLEAN,
          misfit \in BOOLEAN :
            Coerce(c, df, allow_missing, upcast_numeric, misfit)

PerformCall ==
    /\ pc = "idle"
    /\ \E c \in DOMAIN classes, df \in InputFrames : PerformStart(c, df)

Next ==
    \/ ValidateCall
    \/ CoerceCall
    \/ PerformCall
    \/ CheckIsNoClassmethod
    \/ CheckPasses
    \/ CheckRaises
    \/ PerformReturn
    \/ CallDone

Spec == Init /\ [][Next]_vars

----------------------------------------------------------------------------
(* primary_key *)

\* the most rows of a dataset given to primary_key
MaxKeyRows == 3

\* the columns of the datasets given to primary_key, and the values of
\* their cells
KeyColumns == <<"col1", "col2", "value">>
KeyValues  == {1, 2}

\* a pl.DataFrame with its rows: the column names in order, and one tuple
\* of cells per row
DataFrame(columns, rows) == [columns |-> columns, rows |-> rows]

\* A column reference: a plain str, or a Column, which is a str (its value
\* is _name) that carries a dtype.
Str(s) == [kind |-> "str", name |-> s]

Column(t, _name) == [kind |-> "Column", name |-> _name, t |-> t]

\* a list of column references
List(items) == [kind |-> "list", items |-> items]

\* isinstance(columns, (str, Column))
IsColumnReference(columns) == columns.kind \in {"str", "Column"}

\* str(col)
str(col) == col.name

\* ", ".join(names)
RECURSIVE Join(_, _)
Join(sep, names) ==
    IF names = <<>> THEN ""
    ELSE IF Len(names) = 1 THEN names[1]
    ELSE names[1] \o sep \o Join(sep, Tail(names))

\* df.select(column_names), each name a column of df: the named columns
\* in the order given, every row kept
KeySelect(df, column_names) ==
    LET at(k) == CHOOSE i \in DOMAIN df.columns : df.columns[i] = k
    IN  DataFrame(column_names,
                  [r \in DOMAIN df.rows |->
                      [i \in DOMAIN column_names |-> df.rows[r][at(column_names[i])]]])

\* (mutation: a row counts as duplicated when one of its cells repeats in
\* its column)
is_duplicated_PerColumn(df) ==
    [r \in DOMAIN df.rows |->
        \E q \in DOMAIN df.rows, i \in DOMAIN df.columns :
            q # r /\ df.rows[q][i] = df.rows[r][i]]

\* df.is_duplicated(): for each row, whether another row equals it in
\* every column
is_duplicated(df) ==
    [r \in DOMAIN df.rows |->
        \E q \in DOMAIN df.rows : q # r /\ df.rows[q] = df.rows[r]]

\* Series.any()
any(series) == \E r \in DOMAIN series : series[r]

\* What primary_key gives its caller: None, or the ValueError raised.
NoneReturned == [ok |-> TRUE, error |-> "none", message |-> ""]

ValueError(message) == [ok |-> FALSE, error |-> "ValueError", message |-> message]

primary_key(df, columns) ==
    LET cols == IF IsColumnReference(columns) THEN <<columns>> ELSE columns.items
        column_names ==
            [i \in DOMAIN cols |->
                IF cols[i].kind = "Column" THEN str(cols[i]) ELSE cols[i].name]
    IN  IF any(is_duplicated(KeySelect(df, column_names)))
        THEN LET columns_str == Join(", ", column_names)
             IN  ValueError("combination of columns (" \o columns_str
                            \o ") must be unique")
        ELSE NoneReturned

\* The datasets: the columns of CompositeKeySchema, with up to MaxKeyRows rows.
KeyRows == [DOMAIN KeyColumns -> KeyValues]

KeyFrames ==
    UNION { {DataFrame(KeyColumns, rows) : rows \in [1..h -> KeyRows]}
            : h \in 0..MaxKeyRows }

\* The references to a column: its name, or the class attribute
\* Column(v, k) that _Meta sets for it.
ColumnReferences ==
    {Str(KeyColumns[i]) : i \in DOMAIN KeyColumns}
    \cup {Column("Int64", KeyColumns[i]) : i \in DOMAIN KeyColumns}

DistinctReferences(cols) ==
    \A i, j \in DOMAIN cols : cols[i].name = cols[j].name => i = j

\* The `columns` arguments: one reference, or a list of references to
\* different columns of the dataset.  (Any other list is answered by the
\* engine's select, not by primary_key.)
KeyArguments ==
    ColumnReferences
    \cup {List(cols) :
             cols \in {cs \in DistinctSeqs(ColumnReferences, Len(KeyColumns)) :
                          cs # <<>> /\ DistinctReferences(cs)}}

\* primary_key(df, columns)
PrimaryKey(df, columns) ==
    /\ pc = "idle"
    /\ call' = [op |-> "primary_key", df |-> df, columns |-> columns,
                result |-> primary_key(df, columns)]
    /\ pc' = "returned"
    /\ UNCHANGED <<classes, decl, ran>>

PrimaryKeyCall ==
    /\ pc = "idle"
    /\ \E df \in KeyFrames, columns \in KeyArguments : PrimaryKey(df, columns)

InitKey ==
    /\ classes = <<>>
    /\ pc = "idle"
    /\ decl = NoDecl
    /\ call = NoCall
    /\ ran = <<>>

NextKey ==
    \/ PrimaryKeyCall
    \/ CallDone

SpecKey == InitKey /\ [][NextKey]_vars

----------------------------------------------------------------------------
(* Vocabulary of the properties *)

NamesInOrder(schema) == [i \in DOMAIN schema |-> schema[i][1]]

\* the two schemas have the same names with the same types in the same order
SameSchema(s, r) ==
    /\ Len(s) = Len(r)
    /\ \A i \in DOMAIN s : s[i][1] = r[i][1] /\ s[i][2] = r[i][2]

\* the two schemas differ in the order of their columns and in nothing else
OnlyOrderDiffers(s, r) ==
    /\ SchemaNames(r) = SchemaNames(s)
    /\ \A k \in SchemaNames(s) : SchemaGet(r, k) = SchemaGet(s, k)
    /\ NamesInOrder(r) # NamesInOrder(s)

\* the shared columns whose runtime type is not the declared one
Mistyped(s, r) ==
    {k \in SchemaNames(s) \cap SchemaNames(r) : SchemaGet(r, k) # SchemaGet(s, k)}

CalledSchema == classes[call.cls].schema     \* S
GivenSchema  == collect_schema(call.df)      \* the runtime schema of d

ValidateReturned == pc = "returned" /\ call.op = "validate"
CoerceReturned   == pc = "returned" /\ call.op = "coerce"

----------------------------------------------------------------------------
(* validate *)

\* C1: S.validate(d), d materialized or lazy, succeeds if and only if the
\* runtime schema of d equals the schema of S in names, types and order; it
\* then returns d itself, and validating what it returned succeeds again
\* and returns the same dataset.
C1_ValidateExactSchema ==
    ValidateReturned =>
        /\ call.result.ok <=> SameSchema(CalledSchema, GivenSchema)
        /\ call.result.ok =>
              /\ call.result.out = call.df
              /\ validate(classes[call.cls], call.result.out) = call.result

C1_Witness ==
    /\ ValidateReturned
    /\ call.result.ok
    /\ call.df.lazy
    /\ Len(call.df.cols) >= 2

\* C2: S.validate(d) raises the order error exactly when d has the names of
\* S, every column has its declared type, and the order of the columns is
\* not that of S; no other failure raises it, and it is not the aggregated
\* error.
C2_OrderErrorExactly ==
    ValidateReturned =>
        /\ call.result.error = "order"
              <=> OnlyOrderDiffers(CalledSchema, GivenSchema)
        /\ call.result.error = "order" =>
              /\ call.result.redundant = {}
              /\ call.result.missing = {}
              /\ call.result.incorrect = <<>>
              /\ call.result.expected = CalledSchema
              /\ call.result.received = GivenSchema

C2_Witness ==
    /\ ValidateReturned
    /\ call.result.error = "order"
    /\ Len(CalledSchema) = 3
    /\ \E k \in SchemaNames(CalledSchema) : is_numeric(SchemaGet(CalledSchema, k))

\* C3: when S.validate(d) fails and it is not only the order that differs,
\* it raises the one aggregated error, which reports the redundant names
\* (those of d not in S), the missing names (those of S not in d) and, in
\* the order of S, one entry <<k, declared, actual>> for every shared name
\* whose runtime type is not the declared one; the three categories are
\* pairwise disjoint.
C3_AggregatedError ==
    (ValidateReturned /\ ~call.result.ok
        /\ ~OnlyOrderDiffers(CalledSchema, GivenSchema)) =>
        LET inc == call.result.incorrect
            incNames == {inc[i][1] : i \in DOMAIN inc}
        IN  /\ call.result.error = "mismatch"
            /\ call.result.redundant
                  = SchemaNames(GivenSchema) \ SchemaNames(CalledSchema)
            /\ call.result.missing
                  = SchemaNames(CalledSchema) \ SchemaNames(GivenSchema)
            /\ incNames = Mistyped(CalledSchema, GivenSchema)
            /\ Len(inc) = Cardinality(incNames)
            /\ \A i \in DOMAIN inc :
                  /\ inc[i][2] = SchemaGet(CalledSchema, inc[i][1])
                  /\ inc[i][3] = SchemaGet(GivenSchema, inc[i][1])
            /\ call.result.redundant \cap call.result.missing = {}
            /\ incNames \cap call.result.redundant = {}
            /\ incNames \cap call.result.missing = {}
            /\ call.result.redundant # {} \/ call.result.missing # {} \/ inc # <<>>

C3_Witness ==
    /\ ValidateReturned
    /\ call.result.error = "mismatch"
    /\ call.result.redundant # {}
    /\ call.result.missing # {}
    /\ call.result.incorrect # <<>>

\* a failure with one category only: two mistyped columns, nothing missing
\* and nothing redundant
C3_OneCategory ==
    /\ ValidateReturned
    /\ call.result.error = "mismatch"
    /\ call.result.redundant = {}
    /\ call.result.missing = {}
    /\ Len(call.result.incorrect) = 2

----------------------------------------------------------------------------
(* coerce *)

\* the declared columns that d has not
Lacking == SchemaNames(CalledSchema) \ SchemaNames(GivenSchema)

\* the declared columns that d has
Shared == SchemaNames(CalledSchema) \cap SchemaNames(GivenSchema)

OutColumn(k) == FrameColumnOf(call.result.out, k)

\* C5: S.coerce(d) with the default flags, on a d that holds every column
\* of S with its declared type, in any order and among any other columns,
\* succeeds, and the schema of the result is exactly the schema of S: the
\* other columns are gone, unreported, and the order is that of S.
C5_CoerceDropsAndOrders ==
    (/\ CoerceReturned
     /\ ~call.allow_missing
     /\ call.upcast_numeric
     /\ \A k \in SchemaNames(CalledSchema) :
           /\ SchemaHas(GivenSchema, k)
           /\ SchemaGet(GivenSchema, k) = SchemaGet(CalledSchema, k))
    => /\ call.result.ok
       /\ call.result.error = "none"
       /\ SameSchema(collect_schema(call.result.out), CalledSchema)

C5_Witness ==
    /\ CoerceReturned
    /\ ~call.allow_missing
    /\ call.upcast_numeric
    /\ call.result.ok
    /\ Len(CalledSchema) >= 2
    /\ SchemaNames(GivenSchema) \ SchemaNames(CalledSchema) # {}
    /\ GivenSchema[1][1] # CalledSchema[1][1]

\* a numeric dtype that holds fewer values than another of its kind
Narrower(from, to) == from = "Int8" /\ to = "Int64"

\* d has the columns of S, the numeric ones (there is one) in a narrower
\* variant of the declared dtype and the others as declared
NarrowerVariant(s, r) ==
    /\ SchemaNames(r) = SchemaNames(s)
    /\ \E k \in SchemaNames(s) : is_numeric(SchemaGet(s, k))
    /\ \A k \in SchemaNames(s) :
          IF is_numeric(SchemaGet(s, k))
          THEN Narrower(SchemaGet(r, k), SchemaGet(s, k))
          ELSE SchemaGet(r, k) = SchemaGet(s, k)

\* C6: on a d whose columns are narrower numeric variants of the declared
\* numeric dtypes, S.coerce(d, upcast_numeric=True) succeeds and every
\* column of the result has its declared dtype; S.coerce(d,
\* upcast_numeric=False) casts nothing and raises the error S.validate(d)
\* raises, which reports every numeric column with the dtype it has in d.
C6_UpcastNumeric ==
    (CoerceReturned /\ NarrowerVariant(CalledSchema, GivenSchema)) =>
        /\ call.upcast_numeric =>
              /\ call.result.ok
              /\ SameSchema(collect_schema(call.result.out), CalledSchema)
        /\ ~call.upcast_numeric =>
              /\ call.result.error = "mismatch"
              /\ call.result = validate(classes[call.cls], call.df)
              /\ {<<k, SchemaGet(CalledSchema, k), SchemaGet(GivenSchema, k)>> :
                     k \in {n \in SchemaNames(CalledSchema) :
                               is_numeric(SchemaGet(CalledSchema, n))}}
                   = Range(call.result.incorrect)

C6_Witness ==
    /\ CoerceReturned
    /\ NarrowerVariant(CalledSchema, GivenSchema)
    /\ call.upcast_numeric
    /\ call.result.ok
    /\ Cardinality({k \in SchemaNames(CalledSchema) :
                       is_numeric(SchemaGet(CalledSchema, k))}) = 2
    /\ call.df.height > 0

\* what C7 says of a declared column k that d lacks
FilledIn(k) ==
    /\ call.result.ok
    /\ FrameHas(call.result.out, k)
    /\ OutColumn(k).null
    /\ OutColumn(k).dtype = SchemaGet(CalledSchema, k)
    /\ call.result.out.height = call.df.height

ReportedMissing(k) ==
    /\ call.result.error = "mismatch"
    /\ k \in call.result.missing

\* C7 as stated: for every d that lacks a declared column C,
\* S.coerce(d, allow_missing=True) returns a dataset in which C is present,
\* entirely null and of its declared dtype, with the row count of d; and
\* S.coerce(d, allow_missing=False) raises the aggregated error, which
\* names C as missing.  (Read here with upcast_numeric at its default,
\* on the datasets that have a column and whose values every cast accepts:
\* what the engine does besides is left out of it.)
C7_AsStated ==
    (CoerceReturned /\ call.upcast_numeric /\ call.df.cols # <<>> /\ ~call.misfit) =>
        \A k \in Lacking :
            IF call.allow_missing THEN FilledIn(k) ELSE ReportedMissing(k)

\* the columns d shares with S get their declared dtype in coerce: they
\* have it, or it is numeric, upcast_numeric is set and the cast succeeds
SharedConform ==
    /\ ~call.misfit
    /\ \A k \in Shared :
          \/ SchemaGet(GivenSchema, k) = SchemaGet(CalledSchema, k)
          \/ call.upcast_numeric /\ is_numeric(SchemaGet(CalledSchema, k))

\* C7 (amended): for every d that lacks a declared column C:
\* if d has at least one column and the columns it shares with S get their
\* declared dtype in coerce, S.coerce(d, allow_missing=True) returns a
\* dataset in which C is present, entirely null and of its declared dtype,
\* with the row count of d; and unless a cast of coerce fails first,
\* S.coerce(d, allow_missing=False) raises the aggregated error, which
\* names C as missing.
C7_FillsMissing ==
    CoerceReturned =>
        \A k \in Lacking :
            /\ (call.allow_missing /\ call.df.cols # <<>> /\ SharedConform)
                  => FilledIn(k)
            /\ (~call.allow_missing /\ ~call.misfit) => ReportedMissing(k)

C7_Witness ==
    /\ CoerceReturned
    /\ call.allow_missing
    /\ call.result.ok
    /\ Lacking # {}
    /\ Shared # {}
    /\ SchemaNames(GivenSchema) \ SchemaNames(CalledSchema) # {}
    /\ call.df.height > 0

----------------------------------------------------------------------------
(* perform_data_quality_checks *)

Performing == call.op = "perform_data_quality_checks"

RegisteredChecks == classes[call.cls].checks

\* the state of a call of perform_data_quality_checks
PerformInOrder ==
    Performing =>
        LET v == validate(classes[call.cls], call.df)
        IN  \* no check runs on a dataset that does not validate
            /\ ~v.ok => ran = <<>> /\ pc = "returned" /\ call.result = v
            \* the checks that ran are the first registered ones, in order
            /\ Len(ran) <= Len(RegisteredChecks)
            /\ \A i \in DOMAIN ran : ran[i].check = RegisteredChecks[i]
            \* a check that raised is the last one that ran, and its error
            \* is the outcome of the call
            /\ \A i \in DOMAIN ran :
                  ran[i].raised =>
                      /\ i = Len(ran)
                      /\ pc = "returned"
                      /\ call.result = RaisedOnly("check")
            \* nothing is returned while checks are left
            /\ pc = "checking" => call.result = NoResult
            /\ call.result.ok =>
                  /\ pc = "returned"
                  /\ Len(ran) = Len(RegisteredChecks)
                  /\ call.result.out = call.df

\* one check at a time, and none once the call is over
PerformStep ==
    Performing =>
        /\ ran' = ran \/ ran' = <<>> \/ (Len(ran') = Len(ran) + 1 /\ pc = "checking")
        /\ pc = "returned" => (pc' = "idle" /\ call' = NoCall)

\* C8: perform_data_quality_checks(d) validates d first and runs no check
\* when that fails; else it runs the registered checks one at a time in
\* registration order; the first check that raises ends the call with its
\* error and no later check runs; d is returned only after every
\* registered check has run once without raising.
C8_ChecksInOrderFirstErrorEnds == []PerformInOrder /\ [][PerformStep]_vars

C8_Witness ==
    /\ Performing
    /\ pc = "returned"
    /\ Len(RegisteredChecks) = 2
    /\ Len(ran) = 2
    /\ ~ran[1].raised
    /\ ran[2].raised

----------------------------------------------------------------------------
(* Class statements *)

Declared == pc = "declared" /\ decl.ok

NewClass == classes[Len(classes)]

Parents == ParentSchemas(decl.bases)       \* P1 .. Pn

\* the columns the body declares, in declaration order
DeclaredColumns ==
    LET at == {i \in DOMAIN decl.body : decl.body[i].kind = "Column"}
        nth(n) == CHOOSE i \in at : Cardinality({j \in at : j < i}) = n - 1
    IN  [n \in 1..Cardinality(at) |-> <<decl.body[nth(n)].key, decl.body[nth(n)].t>>]

\* the entries of P1, then those of P2, ..., then the declared columns
RECURSIVE EntriesFrom(_)
EntriesFrom(i) ==
    IF i > Len(Parents) THEN DeclaredColumns
    ELSE classes[Parents[i]].schema \o EntriesFrom(i + 1)

Inserted == EntriesFrom(1)

FirstAt(items, k) ==
    CHOOSE i \in DOMAIN items :
        items[i][1] = k /\ \A j \in DOMAIN items : items[j][1] = k => i <= j

LastAt(items, k) ==
    CHOOSE i \in DOMAIN items :
        items[i][1] = k /\ \A j \in DOMAIN items : items[j][1] = k => j <= i

\* C4: the schema of a class declared with parents P1..Pn holds the names
\* of the entries of P1, ..., Pn and of its own columns, each once, in the
\* order of their first occurrence and with the type of their last
\* occurrence.
C4_SchemaMergeOrder ==
    Declared =>
        LET schema == NewClass.schema
        IN  /\ \A i, j \in DOMAIN schema : schema[i][1] = schema[j][1] => i = j
            /\ SchemaNames(schema) = SchemaNames(Inserted)
            /\ \A i, j \in DOMAIN schema :
                  i < j => FirstAt(Inserted, schema[i][1])
                              < FirstAt(Inserted, schema[j][1])
            /\ \A i \in DOMAIN schema :
                  schema[i][2] = Inserted[LastAt(Inserted, schema[i][1])][2]

C4_Witness ==
    /\ Declared
    /\ Len(Parents) = 2
    /\ DeclaredColumns # <<>>
    /\ Len(NewClass.schema) = 2
    /\ \E k \in SchemaNames(Inserted) :
          Inserted[FirstAt(Inserted, k)][2] # Inserted[LastAt(Inserted, k)][2]

\* the checks the body declares, in declaration order
DeclaredChecks ==
    LET at == {i \in DOMAIN decl.body : decl.body[i].marked}
        nth(n) == CHOOSE i \in at : Cardinality({j \in at : j < i}) = n - 1
    IN  [n \in 1..Cardinality(at) |->
            [name |-> decl.body[nth(n)].key, owner |-> Len(classes),
             kind |-> decl.body[nth(n)].kind]]

\* the number of checks of the parents before the i-th
RECURSIVE ChecksBefore(_)
ChecksBefore(i) ==
    IF i <= 1 THEN 0
    ELSE ChecksBefore(i - 1) + Len(classes[Parents[i - 1]].checks)

InheritedChecks == ChecksBefore(Len(Parents) + 1)

ChecksInheritedFirst ==
    Declared =>
        LET checks == NewClass.checks
        IN  /\ Len(checks) = InheritedChecks + Len(DeclaredChecks)
            /\ \A i \in DOMAIN Parents :
                  \A j \in DOMAIN classes[Parents[i]].checks :
                      checks[ChecksBefore(i) + j] = classes[Parents[i]].checks[j]
            /\ \A j \in DOMAIN DeclaredChecks :
                  checks[InheritedChecks + j] = DeclaredChecks[j]

\* a class statement changes no class that exists
ClassesKept ==
    \A c \in DOMAIN classes : c \in DOMAIN classes' /\ classes'[c] = classes[c]

\* C9: the checks of a class declared with parents P1..Pn are the checks of
\* P1, then those of P2, ..., then those of Pn, each list as the parent
\* holds it, then the checks of its own body in declaration order; and the
\* class statement leaves the schema and the checks of the parents as they
\* were.
C9_InheritedChecksFirst == []ChecksInheritedFirst /\ [][ClassesKept]_vars

C9_Witness ==
    /\ Declared
    /\ Len(Parents) = 2
    /\ \A i \in DOMAIN Parents : classes[Parents[i]].checks # <<>>
    /\ classes[Parents[1]].checks # classes[Parents[2]].checks
    /\ Len(DeclaredChecks) = 2

\* the members of the body that are neither a Column, nor a function or
\* classmethod, nor named with a trailing "__"
Unexpected ==
    {decl.body[i].key : i \in {j \in DOMAIN decl.body :
        /\ decl.body[j].kind = "other"
        /\ ~EndsWithDunder(decl.body[j].key)}}

\* C10: a class statement whose body holds such a member raises the
\* TypeError that lists every one of them, and creates no class, whatever
\* the parents declare.  (Read here on the bodies that annotate nothing,
\* for which this is the check that decides.)
C10_UnexpectedMembersRejected ==
    (pc = "declared" /\ ~HasAnnotations(decl.body) /\ Unexpected # {}) =>
        /\ ~decl.ok
        /\ decl.error = "unexpected"
        /\ Unexpected \subseteq Range(decl.names)

\* a body with such a member, under parents that declare no column of that
\* name, is rejected
C10_RejectedWithoutShadowing ==
    /\ pc = "declared"
    /\ decl.error = "unexpected"
    /\ Len(decl.names) = 2

----------------------------------------------------------------------------
(* The dataset a data quality check is given *)

\* the schema of the class the i-th check that ran is declared in
DeclaringSchema(i) == classes[ran[i].check.owner].schema

\* the schema of the class the i-th check that ran was called with
ReceivingSchema(i) == classes[ran[i].cls].schema

\* the i-th check that ran comes from a parent of the class it was called with
InheritedRun(i) == ran[i].check.owner # ran[i].cls

\* C11 (as stated): every data quality check that runs is given a dataset
\* whose schema equals the schema of the class the check is declared in,
\* also when the check is inherited.
C11_GivenDeclaringSchema ==
    Performing =>
        \A i \in DOMAIN ran :
            SameSchema(DeclaringSchema(i), collect_schema(ran[i].df))

\* C11 (amended): every data quality check that runs is given the dataset
\* of the call, whose schema equals the schema of the class
\* perform_data_quality_checks is called on; the check is one of that
\* class's checks and is called with that class.  For a check declared in
\* that class this is the declaring schema; for an inherited check the
\* dataset has every column name of the declaring schema.
C11_GivenCalledSchema ==
    Performing =>
        \A i \in DOMAIN ran :
            /\ ran[i].cls = call.cls
            /\ ran[i].df = call.df
            /\ ran[i].check = RegisteredChecks[i]
            /\ SameSchema(ReceivingSchema(i), collect_schema(ran[i].df))
            /\ ~InheritedRun(i) =>
                   SameSchema(DeclaringSchema(i), collect_schema(ran[i].df))
            /\ SchemaNames(DeclaringSchema(i))
                   \subseteq SchemaNames(collect_schema(ran[i].df))

\* an inherited check and an own check have run on a dataset with a column
\* that the parent does not declare
C11_Witness ==
    /\ Performing
    /\ Len(ran) = 2
    /\ InheritedRun(1)
    /\ ~InheritedRun(2)
    /\ ~SameSchema(DeclaringSchema(1), collect_schema(ran[1].df))
    /\ ran[1].df.cols # <<>>

----------------------------------------------------------------------------
(* primary_key: uniqueness of a column combination *)

KeyCalled == pc = "returned" /\ call.op = "primary_key"

\* the column references given, one or a list
GivenReferences ==
    IF call.columns.kind = "list" THEN call.columns.items ELSE <<call.columns>>

GivenNames == [i \in DOMAIN GivenReferences |-> GivenReferences[i].name]

\* the value of row r of the dataset in the column named k
Cell(r, k) ==
    call.df.rows[r][CHOOSE i \in DOMAIN call.df.columns : call.df.columns[i] = k]

\* two rows of the dataset agree in column k
RepeatsIn(k) ==
    \E r, q \in DOMAIN call.df.rows : r # q /\ Cell(r, k) = Cell(q, k)

\* two rows of the dataset agree in every given column
JointlyRepeated ==
    \E r, q \in DOMAIN call.df.rows :
        /\ r # q
        /\ \A i \in DOMAIN GivenNames : Cell(r, GivenNames[i]) = Cell(q, GivenNames[i])

\* the first n given names, in the order given, with ", " between them
RECURSIVE CommaJoined(_)
CommaJoined(n) ==
    IF n = 1 THEN GivenNames[1]
    ELSE CommaJoined(n - 1) \o ", " \o GivenNames[n]

UniquenessViolation == call.result.error = "ValueError"

\* C12: primary_key(df, columns), columns one reference or a list of
\* references to different columns of df, raises the uniqueness violation
\* exactly when two rows of df agree in every given column (a repeat in
\* one column alone does not raise); the error names the columns in the
\* order given, comma-joined; otherwise nothing is raised and None is
\* returned.  One reference stands for the list that holds only it.
C12_PrimaryKeyJointlyUnique ==
    KeyCalled =>
        /\ UniquenessViolation <=> JointlyRepeated
        /\ UniquenessViolation =>
               /\ ~call.result.ok
               /\ call.result.message =
                      "combination of columns (" \o CommaJoined(Len(GivenNames))
                      \o ") must be unique"
        /\ ~UniquenessViolation => call.result = NoneReturned

\* a key of two columns given as a list; the first repeats a value, the
\* pair does not, and nothing is raised
C12_Witness ==
    /\ KeyCalled
    /\ call.columns.kind = "list"
    /\ Len(GivenNames) = 2
    /\ RepeatsIn(GivenNames[1])
    /\ ~JointlyRepeated
    /\ call.result.ok

\* a single Column reference whose column repeats a value: the error names it
C12_SingleReferenceRaises ==
    /\ KeyCalled
    /\ call.columns.kind = "Column"
    /\ call.result.message = "combination of columns (col2) must be unique"

\* the key (col2, col1) repeats: the error names the columns in that order
C12_OrderGivenRaises ==
    /\ KeyCalled
    /\ call.columns.kind = "list"
    /\ call.result.message = "combination of columns (col2, col1) must be unique"

====
